---- MODULE Spec2Model ----
(***************************************************************************)
(* PageRank (src/pagerank.py): crawl, transition_model, sample_pagerank    *)
(* and iterate_pagerank.                                                   *)
(*                                                                         *)
(* Numbers.  The program computes with Python floats; the model computes   *)
(* the same expressions over the rationals, exactly:                       *)
(*   - a probability in transition_model and sample_pagerank is a reduced  *)
(*     fraction <<numerator, denominator>> of machine integers;            *)
(*   - the rank vector of iterate_pagerank is a vector of integer          *)
(*     numerators over one shared denominator, kept in lowest terms; the   *)
(*     integers are arbitrary-precision (sign and base-Base limbs), since  *)
(*     the exact ranks of a run outgrow a machine integer.                 *)
(* Floating-point rounding is outside the model.                           *)
(***************************************************************************)
EXTENDS Integers, Sequences, FiniteSets, TLC

VARIABLES
    call,              \* the function under execution
    pc,                \* its position: "call", "loop", "done" or "error"
    directory,         \* crawl: file name -> links found in the file
    pages,             \* crawl: the dictionary it builds
    corpus,            \* argument: page -> set of linked pages
    damping_factor,    \* argument: a fraction
    page,              \* transition_model's argument / sample_pagerank's current page
    distribution,      \* transition_model's result
    n,                 \* sample_pagerank's argument
    step,              \* sample_pagerank: iterations of the for loop completed
    page_rank_counts,  \* sample_pagerank: tallies; iterate_pagerank: rank vector
    page_ranks,        \* sample_pagerank's result
    converged,         \* iterate_pagerank's loop flag
    new_ranks,         \* iterate_pagerank: the raw ranks of the last pass
    norm,              \* iterate_pagerank: the divisor n of the last renormalisation
    passes             \* iterate_pagerank: passes completed, counted up to MaxPassCount

vars == <<call, pc, directory, pages, corpus, damping_factor, page, distribution,
          n, step, page_rank_counts, page_ranks, converged, new_ranks, norm, passes>>

(***************************************************************************)
(* Bounds of the model.                                                    *)
(***************************************************************************)
\* the page identifiers a corpus draws its keys from
PageIds == {"A", "B", "C"}
\* the largest n sample_pagerank is called with
MaxSamples == 3
\* SpecPass starts from the rank vectors whose ranks are multiples of 1/RankGrid
RankGrid == 4
\* passes counts the passes of iterate_pagerank's loop up to this number
MaxPassCount == 3
\* the base of the limbs of an arbitrary-precision integer
Base == 1000 * 1000

\* the value of a variable the function under execution has not assigned
None == <<>>

(***************************************************************************)
(* Generic helpers.  The recursive operators bind their arguments through  *)
(* a one-element set ({e : x \in {x0}}), which makes TLC evaluate each     *)
(* argument once, also inside ENABLED, where it does not cache the value   *)
(* of a definition.                                                        *)
(***************************************************************************)
The(S) == CHOOSE v \in S : TRUE

Abs(x) == IF x < 0 THEN -x ELSE x

RECURSIVE GCD(_, _)
GCD(a0, b0) ==
    The({IF b = 0 THEN a ELSE GCD(b, a % b) : <<a, b>> \in {<<Abs(a0), Abs(b0)>>}})

LCM(a, b) == (a \div GCD(a, b)) * b

RECURSIVE LcmOf(_)
LcmOf(S0) ==
    The({IF S = {} THEN 1
         ELSE The({LCM(x, LcmOf(S \ {x})) : x \in {CHOOSE y \in S : TRUE}}) :
            S \in {S0}})

(***************************************************************************)
(* Exact fractions <<num, den>>, den > 0, in lowest terms.                 *)
(***************************************************************************)
Q(a, b) ==
    The({<<(IF b < 0 THEN -1 ELSE 1) * (a \div g), (IF b < 0 THEN -1 ELSE 1) * (b \div g)>> :
            g \in {GCD(a, b)}})
QInt(k) == <<k, 1>>
QAdd(x0, y0) ==
    The({Q(x[1] * (l \div x[2]) + y[1] * (l \div y[2]), l) :
            <<x, y, l>> \in {<<x0, y0, LCM(x0[2], y0[2])>>}})
QSub(x, y) == QAdd(x, <<-y[1], y[2]>>)
QMul(x0, y0) ==
    The({Q((x[1] \div g1) * (y[1] \div g2), (x[2] \div g2) * (y[2] \div g1)) :
            <<x, y, g1, g2>> \in {<<x0, y0, GCD(x0[1], y0[2]), GCD(y0[1], x0[2])>>}})
QDiv(x, y) == QMul(x, Q(y[2], y[1]))
QLess(x, y) == x[1] * y[2] < y[1] * x[2]
QLeq(x, y) == x[1] * y[2] <= y[1] * x[2]

RECURSIVE QSum(_, _)
QSum(f0, S0) ==
    The({IF S = {} THEN QInt(0)
         ELSE The({QAdd(f[x], QSum(f, S \ {x})) : x \in {CHOOSE y \in S : TRUE}}) :
            <<f, S>> \in {<<f0, S0>>}})

RECURSIVE IntSum(_, _)
IntSum(f0, S0) ==
    The({IF S = {} THEN 0
         ELSE The({f[x] + IntSum(f, S \ {x}) : x \in {CHOOSE y \in S : TRUE}}) :
            <<f, S>> \in {<<f0, S0>>}})

(***************************************************************************)
(* Arbitrary-precision integers: [s |-> sign, m |-> limbs], the limbs      *)
(* little-endian in base Base without leading zero limbs; zero is          *)
(* [s |-> 1, m |-> <<>>].  The second operand of BMul, BDivExact and       *)
(* BDivides is a machine integer of magnitude below 2000.                  *)
(***************************************************************************)
RECURSIVE MagNorm(_)
MagNorm(m0) ==
    The({IF m = <<>> THEN <<>>
         ELSE IF m[Len(m)] = 0 THEN MagNorm(SubSeq(m, 1, Len(m) - 1))
         ELSE m : m \in {m0}})

RECURSIVE MagFromNat(_)
MagFromNat(k0) ==
    The({IF k = 0 THEN <<>> ELSE <<k % Base>> \o MagFromNat(k \div Base) : k \in {k0}})

MagHead(a) == IF a = <<>> THEN 0 ELSE Head(a)
MagTail(a) == IF a = <<>> THEN <<>> ELSE Tail(a)

RECURSIVE MagAdd(_, _, _)
MagAdd(a0, b0, c0) ==
    The({IF a = <<>> /\ b = <<>> THEN MagFromNat(x)
         ELSE <<x % Base>> \o MagAdd(MagTail(a), MagTail(b), x \div Base) :
            <<a, b, x>> \in {<<a0, b0, MagHead(a0) + MagHead(b0) + c0>>}})

\* a - b - c for a >= b + c
RECURSIVE MagSub(_, _, _)
MagSub(a0, b0, c0) ==
    The({IF a = <<>> THEN <<>>
         ELSE <<x % Base>> \o MagSub(Tail(a), MagTail(b), IF x < 0 THEN 1 ELSE 0) :
            <<a, b, x>> \in {<<a0, b0, MagHead(a0) - MagHead(b0) - c0>>}})

RECURSIVE MagCmp(_, _)
MagCmp(a0, b0) ==
    The({IF Len(a) # Len(b) THEN (IF Len(a) < Len(b) THEN -1 ELSE 1)
         ELSE IF a = <<>> THEN 0
         ELSE IF a[Len(a)] # b[Len(b)] THEN (IF a[Len(a)] < b[Len(b)] THEN -1 ELSE 1)
         ELSE MagCmp(SubSeq(a, 1, Len(a) - 1), SubSeq(b, 1, Len(b) - 1)) :
            <<a, b>> \in {<<a0, b0>>}})

RECURSIVE MagMul(_, _, _)
MagMul(a0, k0, c0) ==
    The({IF a = <<>> THEN MagFromNat(x)
         ELSE <<x % Base>> \o MagMul(Tail(a), k, x \div Base) :
            <<a, k, x>> \in {<<a0, k0, MagHead(a0) * k0 + c0>>}})

\* quotient and remainder of a by k
RECURSIVE MagDivRem(_, _)
MagDivRem(a0, k0) ==
    The({IF a = <<>> THEN [q |-> <<>>, r |-> 0]
         ELSE The({[q |-> <<x \div k>> \o hi.q, r |-> x % k] :
                      <<hi, x>> \in {The({<<h, h.r * Base + Head(a)>> :
                                            h \in {MagDivRem(Tail(a), k)}})}}) :
            <<a, k>> \in {<<a0, k0>>}})

BNorm(s, m) == The({[s |-> IF mm = <<>> THEN 1 ELSE s, m |-> mm] : mm \in {MagNorm(m)}})
BZero == [s |-> 1, m |-> <<>>]
BInt(k) == BNorm(IF k < 0 THEN -1 ELSE 1, MagFromNat(Abs(k)))
BNeg(a0) == The({BNorm(-a.s, a.m) : a \in {a0}})
BAbs(a) == [s |-> 1, m |-> a.m]
BAdd(a0, b0) ==
    The({IF a.s = b.s THEN BNorm(a.s, MagAdd(a.m, b.m, 0))
         ELSE IF c = 0 THEN BZero
         ELSE IF c > 0 THEN BNorm(a.s, MagSub(a.m, b.m, 0))
         ELSE BNorm(b.s, MagSub(b.m, a.m, 0)) :
            <<a, b, c>> \in {The({<<x, y, MagCmp(x.m, y.m)>> : <<x, y>> \in {<<a0, b0>>}})}})
BSub(a, b) == BAdd(a, BNeg(b))
BMul(a0, k0) ==
    The({BNorm(IF k < 0 THEN -a.s ELSE a.s, MagMul(a.m, Abs(k), 0)) :
            <<a, k>> \in {<<a0, k0>>}})
BIsZero(a) == a.m = <<>>
BIsNeg(a0) == The({a.s = -1 /\ a.m # <<>> : a \in {a0}})
BLess(a, b) == BIsNeg(BSub(a, b))
BLeq(a, b) == ~BLess(b, a)
BDivides(k, a) == MagDivRem(a.m, k).r = 0
BDivExact(a0, k) == The({BNorm(a.s, MagDivRem(a.m, k).q) : a \in {a0}})
\* the value of a, for a of magnitude below Base
BToInt(a0) == The({IF a.m = <<>> THEN 0 ELSE a.s * a.m[1] : a \in {a0}})

RECURSIVE BSum(_, _)
BSum(f0, S0) ==
    The({IF S = {} THEN BZero
         ELSE The({BAdd(f[x], BSum(f, S \ {x})) : x \in {CHOOSE y \in S : TRUE}}) :
            <<f, S>> \in {<<f0, S0>>}})

(***************************************************************************)
(* crawl (lines 24-45).  A file name is <<stem, suffix>>; the directory    *)
(* maps each file to the set of href strings the regular expression finds  *)
(* in it (reading the file and matching the expression are outside the     *)
(* model).                                                                 *)
(***************************************************************************)
FileNames == {<<"a", ".html">>, <<"b", ".html">>, <<"c", ".txt">>}
LinkStrings == FileNames \cup {<<"z", ".html">>}

endswith_html(filename) == filename[2] = ".html"

\* the first loop without "- {filename}"
crawl_extract_keeps_self(dir) ==
    [filename \in {f \in DOMAIN dir : endswith_html(f)} |-> dir[filename]]

\* lines 33-39: the first loop
crawl_extract(dir) ==
    [filename \in {f \in DOMAIN dir : endswith_html(f)} |-> dir[filename] \ {filename}]

\* lines 42-43: the second loop
crawl_filter(pgs) ==
    [filename \in DOMAIN pgs |-> {link \in pgs[filename] : link \in DOMAIN pgs}]

crawl(dir) == crawl_filter(crawl_extract(dir))

Directories ==
    UNION {[D -> SUBSET LinkStrings] : D \in SUBSET FileNames}

(***************************************************************************)
(* Corpora: what crawl returns, over the page identifiers PageIds.         *)
(***************************************************************************)
Corpora ==
    UNION {{c \in [K -> SUBSET K] : \A p \in K : p \notin c[p]} : K \in SUBSET PageIds}

Dampings == {Q(0, 1), Q(1, 2), Q(17, 20), Q(1, 1)}

len(c) == Cardinality(DOMAIN c)

(***************************************************************************)
(* transition_model (lines 48-76).                                         *)
(***************************************************************************)
\* line 69 assigning the teleport share instead of adding it
transition_model_overwrite(c, pg, d) ==
    LET num_pages == len(c)
    IN IF c[pg] # {}
       THEN [p \in c[pg] \cup DOMAIN c |->
                IF p \in DOMAIN c
                THEN QDiv(QSub(QInt(1), d), QInt(num_pages))
                ELSE QDiv(d, QInt(Cardinality(c[pg])))]
       ELSE [p \in DOMAIN c |-> QDiv(QInt(1), QInt(num_pages))]

\* the else branch giving a page without links only the teleport share
transition_model_damped_dangling(c, pg, d) ==
    LET num_pages == len(c)
    IN IF c[pg] # {}
       THEN [p \in c[pg] \cup DOMAIN c |->
                IF p \in DOMAIN c
                THEN QAdd(IF p \in c[pg] THEN QDiv(d, QInt(Cardinality(c[pg]))) ELSE QInt(0),
                          QDiv(QSub(QInt(1), d), QInt(num_pages)))
                ELSE QDiv(d, QInt(Cardinality(c[pg])))]
       ELSE [p \in DOMAIN c |-> QDiv(QSub(QInt(1), d), QInt(num_pages))]

transition_model(c, pg, d) ==
    LET num_pages == len(c)
    IN IF c[pg] # {}
       THEN LET linked_pages == c[pg]
                num_links == Cardinality(linked_pages)
                \* lines 64-65
                links == [link \in linked_pages |-> QDiv(d, QInt(num_links))]
                get(p) == IF p \in DOMAIN links THEN links[p] ELSE QInt(0)
            \* lines 68-69
            IN [p \in DOMAIN links \cup DOMAIN c |->
                   IF p \in DOMAIN c
                   THEN QAdd(get(p), QDiv(QSub(QInt(1), d), QInt(num_pages)))
                   ELSE links[p]]
       \* lines 73-74
       ELSE [p \in DOMAIN c |-> QDiv(QInt(1), QInt(num_pages))]

(***************************************************************************)
(* sample_pagerank (lines 79-111).                                         *)
(***************************************************************************)
\* range(n) in place of range(n - 1)
in_range_n(i, samples) == i < samples

\* line 95: the loop variable is in range(n - 1)
in_range(i, samples) == i < samples - 1

\* line 106: random.choices draws a key of positive weight
choices(DictOut) == {k \in DOMAIN DictOut : QLess(QInt(0), DictOut[k])}

\* line 109
sample_ranks(counts, samples) == [p \in DOMAIN counts |-> Q(counts[p], samples)]

(***************************************************************************)
(* iterate_pagerank (lines 114-154).  A rank vector is                     *)
(* [num |-> page -> integer, den |-> integer]: page p has rank             *)
(* num[p] / den.  One pass multiplies the denominator by pass_scale, which *)
(* makes every quotient of the pass an integer numerator.                  *)
(***************************************************************************)
ToleranceDen == 1000

\* line 125
initial_ranks(c) ==
    [num |-> [pg \in DOMAIN c |-> BInt(1)], den |-> BInt(len(c))]

links_scale(c) == LcmOf(({len(c)} \cup {Cardinality(c[q]) : q \in DOMAIN c}) \ {0})
pass_scale(c, d) == d[2] * links_scale(c)

\* lines 132-137 without the elif branch of lines 139-142
new_rank_no_dangling(c, d, ranks, pg) ==
    LET corpuslength == len(c)
        m == links_scale(c)
        total == BMul(ranks.den, (d[2] - d[1]) * (m \div corpuslength))
        added(possible_page) ==
            IF pg \in c[possible_page]
            THEN BMul(ranks.num[possible_page],
                      d[1] * (m \div Cardinality(c[possible_page])))
            ELSE BZero
    IN BAdd(total, BSum([q \in DOMAIN c |-> added(q)], DOMAIN c))

\* damping_factor and 1 - damping_factor exchanged
new_rank_swapped(c, d, ranks, pg) ==
    LET corpuslength == len(c)
        m == links_scale(c)
        total == BMul(ranks.den, d[1] * (m \div corpuslength))
        added(possible_page) ==
            IF pg \in c[possible_page]
            THEN BMul(ranks.num[possible_page],
                      (d[2] - d[1]) * (m \div Cardinality(c[possible_page])))
            ELSE IF Cardinality(c[possible_page]) = 0
            THEN BMul(ranks.num[possible_page], (d[2] - d[1]) * (m \div corpuslength))
            ELSE BZero
    IN BAdd(total, BSum([q \in DOMAIN c |-> added(q)], DOMAIN c))

\* lines 132-143: new_ranks[pg], as a numerator over ranks.den * pass_scale(c, d)
new_rank(c, d, ranks, pg) ==
    LET corpuslength == len(c)
        m == links_scale(c)
        \* line 132: (1 - damping_factor) / corpuslength
        total == BMul(ranks.den, (d[2] - d[1]) * (m \div corpuslength))
        added(possible_page) ==
            \* lines 134-137
            IF pg \in c[possible_page]
            THEN BMul(ranks.num[possible_page],
                      d[1] * (m \div Cardinality(c[possible_page])))
            \* lines 139-142
            ELSE IF Cardinality(c[possible_page]) = 0
            THEN BMul(ranks.num[possible_page], d[1] * (m \div corpuslength))
            ELSE BZero
    IN BAdd(total, BSum([q \in DOMAIN c |-> added(q)], DOMAIN c))

\* lines 129-143: one pass over the pages
rank_pass(c, d, ranks) ==
    [num |-> [pg \in DOMAIN c |-> new_rank(c, d, ranks, pg)],
     den |-> BMul(ranks.den, pass_scale(c, d))]

\* lines 146-148: raw is rank_pass(c, d, ranks), scale is pass_scale(c, d)
all_close(raw, ranks, scale) ==
    \A pg \in DOMAIN raw.num :
        BLess(BMul(BAbs(BSub(raw.num[pg], BMul(ranks.num[pg], scale))), ToleranceDen),
              raw.den)

\* line 151: n = sum(...), as a numerator over raw.den
rank_sum(raw) == BSum(raw.num, DOMAIN raw.num)

\* the same vector in lowest terms: common factors k..kmax cancelled
RECURSIVE lowest_terms(_, _, _)
lowest_terms(v0, k0, kmax) ==
    The({IF k > kmax \/ BIsZero(v.den) THEN v
         ELSE IF BDivides(k, v.den) /\ \A pg \in DOMAIN v.num : BDivides(k, v.num[pg])
         THEN lowest_terms([num |-> [pg \in DOMAIN v.num |-> BDivExact(v.num[pg], k)],
                            den |-> BDivExact(v.den, k)], k, kmax)
         ELSE lowest_terms(v, k + 1, kmax) :
            <<v, k>> \in {<<v0, k0>>}})

\* rank / len(page_rank_counts) in place of rank / n
renormalise_by_length(raw, divisor) ==
    [num |-> raw.num, den |-> BMul(raw.den, Cardinality(DOMAIN raw.num))]

\* line 152: rank / n for every page, n = divisor / raw.den
renormalise(raw, divisor) ==
    [num |-> [pg \in DOMAIN raw.num |->
                 IF BIsNeg(divisor) THEN BNeg(raw.num[pg]) ELSE raw.num[pg]],
     den |-> BAbs(divisor)]

MaxFactor(c, d) == IF d[2] > len(c) THEN d[2] ELSE len(c)

(***************************************************************************)
(* Specification of crawl.                                                 *)
(***************************************************************************)
InitCrawl ==
    /\ call = "crawl" /\ pc = "call"
    /\ directory \in Directories
    /\ pages = None /\ corpus = None /\ damping_factor = None /\ page = None
    /\ distribution = None /\ n = 0 /\ step = 0 /\ page_rank_counts = None
    /\ page_ranks = None /\ converged = FALSE /\ new_ranks = None /\ norm = None
    /\ passes = 0

CrawlCall ==
    /\ call = "crawl" /\ pc = "call"
    /\ pages' = crawl(directory)
    /\ pc' = "done"
    /\ UNCHANGED <<call, directory, corpus, damping_factor, page, distribution, n, step,
                   page_rank_counts, page_ranks, converged, new_ranks, norm, passes>>

SpecCrawl == InitCrawl /\ [][CrawlCall]_vars

(***************************************************************************)
(* Specification of transition_model.                                      *)
(***************************************************************************)
InitTransition ==
    /\ call = "transition_model" /\ pc = "call"
    /\ corpus \in Corpora \ {None}
    /\ page \in DOMAIN corpus
    /\ damping_factor \in Dampings
    /\ directory = None /\ pages = None
    /\ distribution = None /\ n = 0 /\ step = 0 /\ page_rank_counts = None
    /\ page_ranks = None /\ converged = FALSE /\ new_ranks = None /\ norm = None
    /\ passes = 0

TransitionCall ==
    /\ call = "transition_model" /\ pc = "call"
    /\ distribution' = transition_model(corpus, page, damping_factor)
    /\ pc' = "done"
    /\ UNCHANGED <<call, directory, pages, corpus, damping_factor, page, n, step,
                   page_rank_counts, page_ranks, converged, new_ranks, norm, passes>>

SpecTransition == InitTransition /\ [][TransitionCall]_vars

(***************************************************************************)
(* Specification of sample_pagerank.                                       *)
(***************************************************************************)
InitSample ==
    /\ call = "sample_pagerank" /\ pc = "call"
    /\ corpus \in Corpora
    /\ damping_factor \in Dampings
    /\ n \in -1 .. MaxSamples
    /\ directory = None /\ pages = None /\ page = None
    /\ distribution = None /\ step = 0 /\ page_rank_counts = None
    /\ page_ranks = None /\ converged = FALSE /\ new_ranks = None /\ norm = None
    /\ passes = 0

\* lines 89-93; random.choice raises IndexError on an empty list
SampleStart ==
    /\ call = "sample_pagerank" /\ pc = "call"
    /\ IF DOMAIN corpus = {}
       THEN /\ pc' = "error"
            /\ UNCHANGED <<page, page_rank_counts>>
       ELSE /\ page' \in DOMAIN corpus
            /\ page_rank_counts' = [pg \in DOMAIN corpus |-> 0]
            /\ pc' = "loop"
    /\ UNCHANGED <<call, directory, pages, corpus, damping_factor, distribution, n, step,
                   page_ranks, converged, new_ranks, norm, passes>>

\* lines 95-106: one iteration of the for loop over range(n - 1)
SampleStep ==
    /\ call = "sample_pagerank" /\ pc = "loop"
    /\ in_range(step, n)
    /\ page_rank_counts' = [page_rank_counts EXCEPT ![page] = @ + 1]
    /\ page' \in choices(transition_model(corpus, page, damping_factor))
    /\ step' = step + 1
    /\ UNCHANGED <<call, pc, directory, pages, corpus, damping_factor, distribution, n,
                   page_ranks, converged, new_ranks, norm, passes>>

\* lines 109-111; count / n raises ZeroDivisionError for n = 0
SampleReturn ==
    /\ call = "sample_pagerank" /\ pc = "loop"
    /\ ~in_range(step, n)
    /\ IF n = 0
       THEN pc' = "error" /\ UNCHANGED page_ranks
       ELSE pc' = "done" /\ page_ranks' = sample_ranks(page_rank_counts, n)
    /\ UNCHANGED <<call, directory, pages, corpus, damping_factor, page, distribution, n,
                   step, page_rank_counts, converged, new_ranks, norm, passes>>

NextSample == SampleStart \/ SampleStep \/ SampleReturn

SpecSample == InitSample /\ [][NextSample]_vars

(***************************************************************************)
(* Specification of iterate_pagerank.  The initial state is the state      *)
(* after lines 123-126.                                                    *)
(***************************************************************************)
InitIterate ==
    /\ call = "iterate_pagerank" /\ pc = "loop"
    /\ corpus \in Corpora
    /\ damping_factor \in Dampings
    /\ page_rank_counts = initial_ranks(corpus)
    /\ converged = FALSE
    /\ directory = None /\ pages = None /\ page = None
    /\ distribution = None /\ n = 0 /\ step = 0
    /\ page_ranks = None /\ new_ranks = None /\ norm = None
    /\ passes = 0

\* lines 129-152: the body of the while loop, from the rank vector it starts
\* with to the values it leaves in new_ranks, converged, n and
\* page_rank_counts; rank / n raises ZeroDivisionError for n = 0
loop_body(c, d, ranks) ==
    The({[new_ranks |-> raw,
          converged |-> all_close(raw, ranks, pass_scale(c, d)),
          n |-> [num |-> divisor, den |-> raw.den],
          raises |-> BIsZero(divisor) /\ DOMAIN c # {},
          page_rank_counts |->
              IF BIsZero(divisor) /\ DOMAIN c # {} THEN raw
              ELSE lowest_terms(renormalise(raw, divisor), 2, MaxFactor(c, d))] :
            <<raw, divisor>> \in {The({<<r, rank_sum(r)>> :
                                         r \in {rank_pass(c, d, ranks)}})}})

\* lines 128-152: one iteration of the while loop
IterateStep ==
    /\ call = "iterate_pagerank" /\ pc = "loop"
    /\ ~converged
    /\ \E body \in {loop_body(corpus, damping_factor, page_rank_counts)} :
          /\ new_ranks' = body.new_ranks
          /\ converged' = body.converged
          /\ norm' = body.n
          /\ pc' = IF body.raises THEN "error" ELSE "loop"
          /\ page_rank_counts' = body.page_rank_counts
    /\ passes' = IF passes < MaxPassCount THEN passes + 1 ELSE passes
    /\ UNCHANGED <<call, directory, pages, corpus, damping_factor, page, distribution, n,
                   step, page_ranks>>

\* lines 128 and 154
IterateReturn ==
    /\ call = "iterate_pagerank" /\ pc = "loop"
    /\ converged
    /\ pc' = "done"
    /\ UNCHANGED <<call, directory, pages, corpus, damping_factor, page, distribution, n,
                   step, page_rank_counts, page_ranks, converged, new_ranks, norm, passes>>

NextIterate == IterateStep \/ IterateReturn

SpecIterate == InitIterate /\ [][NextIterate]_vars

\* the interpreter keeps running the loop: a pass that can run does run
FairSpecIterate == SpecIterate /\ WF_vars(IterateStep) /\ WF_vars(IterateReturn)

(***************************************************************************)
(* Specification of one pass of iterate_pagerank's recurrence (lines       *)
(* 129-143) from an arbitrary rank vector that sums to 1.                  *)
(***************************************************************************)
GridRanks(c) ==
    {[num |-> [pg \in DOMAIN c |-> BInt(f[pg])], den |-> BInt(RankGrid)] :
        f \in {g \in [DOMAIN c -> 0 .. RankGrid] : IntSum(g, DOMAIN c) = RankGrid}}

InitPass ==
    /\ call = "rank_pass" /\ pc = "call"
    /\ corpus \in Corpora \ {None}
    /\ damping_factor \in Dampings
    /\ page_rank_counts \in GridRanks(corpus)
    /\ converged = FALSE
    /\ directory = None /\ pages = None /\ page = None
    /\ distribution = None /\ n = 0 /\ step = 0
    /\ page_ranks = None /\ new_ranks = None /\ norm = None
    /\ passes = 0

PassCall ==
    /\ call = "rank_pass" /\ pc = "call"
    /\ new_ranks' = rank_pass(corpus, damping_factor, page_rank_counts)
    /\ pc' = "done"
    /\ UNCHANGED <<call, directory, pages, corpus, damping_factor, page, distribution, n,
                   step, page_rank_counts, page_ranks, converged, norm, passes>>

SpecPass == InitPass /\ [][PassCall]_vars

(***************************************************************************)
(* Properties.                                                             *)
(***************************************************************************)
QOne == QInt(1)
QZero == QInt(0)
IsDangling(c, pg) == c[pg] = {}

\* C1: for every valid corpus, page of the corpus and damping factor in
\* [0,1], the mapping transition_model returns has exactly the corpus's pages
\* as keys, no negative value, and values that sum to 1.
TransitionIsDistribution ==
    (call = "transition_model" /\ pc = "done") =>
        /\ DOMAIN distribution = DOMAIN corpus
        /\ \A p \in DOMAIN distribution : QLeq(QZero, distribution[p])
        /\ QSum(distribution, DOMAIN distribution) = QOne

TransitionLinkedWitness ==
    /\ call = "transition_model" /\ pc = "done"
    /\ len(corpus) = 3 /\ Cardinality(corpus[page]) = 1
    /\ damping_factor = Q(17, 20)

\* C2: transition_model returns, for every page q, (1-d)/num_pages plus
\* d/num_links when q is linked from the current page, if the current page
\* has links (so every page gets at least (1-d)/num_pages), and 1/num_pages
\* whatever d is if the current page has no links.
reference_probability(c, pg, d, q) ==
    IF c[pg] # {}
    THEN QAdd(QDiv(QSub(QOne, d), QInt(len(c))),
              IF q \in c[pg] THEN QDiv(d, QInt(Cardinality(c[pg]))) ELSE QZero)
    ELSE Q(1, len(c))

TransitionMatchesReference ==
    (call = "transition_model" /\ pc = "done") =>
        /\ DOMAIN distribution = DOMAIN corpus
        /\ \A q \in DOMAIN corpus :
              /\ distribution[q] = reference_probability(corpus, page, damping_factor, q)
              /\ ~IsDangling(corpus, page) =>
                    QLeq(QDiv(QSub(QOne, damping_factor), QInt(len(corpus))),
                         distribution[q])

TransitionDanglingWitness ==
    /\ call = "transition_model" /\ pc = "done"
    /\ len(corpus) = 3 /\ IsDangling(corpus, page)
    /\ damping_factor = Q(17, 20)
    /\ \A q \in DOMAIN corpus : distribution[q] = Q(1, 3)

IterateRunning == call = "iterate_pagerank" /\ pc = "loop" /\ DOMAIN corpus # {}
IterateDone == call = "iterate_pagerank" /\ pc = "done"
DampingBelowOne == damping_factor[1] < damping_factor[2]

\* C4 as stated: iterate_pagerank terminates for every valid corpus and
\* every damping factor in [0,1].
IterateTerminates == IterateRunning ~> IterateDone

\* C4 as amended: iterate_pagerank terminates for every valid corpus and
\* every damping factor in [0,1), that is whenever teleportation is present.
IterateTerminatesBelowOne ==
    (IterateRunning /\ DampingBelowOne) ~> IterateDone

IterateLongRunWitness ==
    /\ call = "iterate_pagerank" /\ pc = "done"
    /\ len(corpus) = 3 /\ damping_factor = Q(17, 20)
    /\ passes = MaxPassCount
    /\ \E p \in DOMAIN corpus : IsDangling(corpus, p)

\* C5: for a valid corpus and a damping factor in [0,1], after every
\* iteration of iterate_pagerank's loop the rank vector has exactly the
\* corpus's pages as keys, no negative value and values that sum to 1, and
\* the divisor of the renormalisation was not 0.
IterateRanksNormalised ==
    (call = "iterate_pagerank" /\ DOMAIN corpus # {} /\ passes >= 1) =>
        /\ pc # "error"
        /\ ~BIsZero(norm.num)
        /\ DOMAIN page_rank_counts.num = DOMAIN corpus
        /\ BLess(BZero, page_rank_counts.den)
        /\ \A p \in DOMAIN corpus : ~BIsNeg(page_rank_counts.num[p])
        /\ rank_sum(page_rank_counts) = page_rank_counts.den

IterateNormalisedWitness ==
    /\ call = "iterate_pagerank" /\ pc = "loop" /\ ~converged
    /\ passes >= 2
    /\ damping_factor = Q(17, 20)
    /\ \E p, q \in DOMAIN corpus :
          /\ IsDangling(corpus, p)
          /\ page_rank_counts.num[p] # page_rank_counts.num[q]

\* C6: the dictionary crawl builds has the .html files of the directory as
\* keys and gives each of them exactly its raw links that are keys, minus
\* itself; so every link target is a key and no page links to itself.
CrawlFiltersLinks ==
    (call = "crawl" /\ pc = "done") =>
        /\ DOMAIN pages = {f \in DOMAIN directory : endswith_html(f)}
        /\ \A f \in DOMAIN pages :
              /\ pages[f] = (directory[f] \cap DOMAIN pages) \ {f}
              /\ pages[f] \subseteq DOMAIN pages
              /\ f \notin pages[f]

CrawlWitness ==
    /\ call = "crawl" /\ pc = "done"
    /\ DOMAIN directory = FileNames
    /\ directory[<<"a", ".html">>] = LinkStrings
    /\ pages[<<"a", ".html">>] = {<<"b", ".html">>}

\* C7: with a corpus of zero pages, sample_pagerank and iterate_pagerank
\* each end in an error and never return a rank mapping.
EmptyCorpusIsRejected ==
    (call \in {"sample_pagerank", "iterate_pagerank"} /\ DOMAIN corpus = {}) =>
        pc # "done"

\* C8: sample_pagerank called with n < 1 on a valid corpus ends in an error
\* and never returns a rank mapping.
SamplesBelowOneRejected ==
    (call = "sample_pagerank" /\ DOMAIN corpus # {} /\ n < 1) => pc # "done"

\* the distance of ranks[pg] to target/20 is at most 1/20 = 0.05
WithinTwentieth(ranks, pg, target) ==
    BLeq(BAbs(BSub(BMul(ranks.num[pg], 20), BMul(ranks.den, target))), ranks.den)

DanglingTestCorpus == [pg \in {"A", "B"} |-> IF pg = "B" THEN {"A"} ELSE {}]

DanglingTestDone ==
    /\ call = "iterate_pagerank" /\ pc = "done"
    /\ corpus = DanglingTestCorpus /\ damping_factor = Q(17, 20)

\* C9 as stated: for the corpus {A: {}, B: {A}} and damping 0.85,
\* iterate_pagerank returns ranks of A and B both within 0.05 of 0.5.
DanglingTestNearHalf ==
    DanglingTestDone =>
        /\ WithinTwentieth(page_rank_counts, "A", 10)
        /\ WithinTwentieth(page_rank_counts, "B", 10)

\* C9 as amended: for the corpus {A: {}, B: {A}} and damping 0.85,
\* iterate_pagerank returns a rank of A within 0.05 of 0.65 and a rank of B
\* within 0.05 of 0.35.
DanglingTestRanks ==
    DanglingTestDone =>
        /\ WithinTwentieth(page_rank_counts, "A", 13)
        /\ WithinTwentieth(page_rank_counts, "B", 7)

DanglingTestWitness ==
    /\ DanglingTestDone
    /\ passes = MaxPassCount
    /\ BLess(page_rank_counts.num["B"], page_rank_counts.num["A"])

\* C10: for a valid corpus, a damping factor in [0,1] and a rank vector r
\* that sums to 1, the raw new rank one pass of iterate_pagerank computes
\* for page p is the sum over the pages q of r[q] * transition_model(q)[p].
chain_step(c, d, ranks, p) ==
    QSum([q \in DOMAIN c |->
             QMul(Q(BToInt(ranks.num[q]), BToInt(ranks.den)),
                  transition_model(c, q, d)[p])], DOMAIN c)

PassIsChainStep ==
    (call = "rank_pass" /\ pc = "done") =>
        \A p \in DOMAIN corpus :
            Q(BToInt(new_ranks.num[p]), BToInt(new_ranks.den))
                = chain_step(corpus, damping_factor, page_rank_counts, p)

PassWitness ==
    /\ call = "rank_pass" /\ pc = "done"
    /\ len(corpus) = 3 /\ damping_factor = Q(17, 20)
    /\ \E p, q \in DOMAIN corpus :
          /\ IsDangling(corpus, p) /\ ~BIsZero(page_rank_counts.num[p])
          /\ ~IsDangling(corpus, q) /\ ~BIsZero(page_rank_counts.num[q])
          /\ page_rank_counts.num[p] # page_rank_counts.num[q]

====
